---- MODULE Spec2Model ----
(***************************************************************************)
(* Model of src/main.py: a socket.io chess client that keeps one            *)
(* chess.Board, one player_role, and answers board-state pushes on its own  *)
(* turn with a random legal move.                                            *)
(*                                                                           *)
(* Python strings that the program takes apart or concatenates (FEN text,   *)
(* square names, UCI text) are sequences of one-character strings.  The     *)
(* rules library (python-chess) is modelled on a reduced board of           *)
(* Len(FileNames) files and Len(RankNames) ranks, without castling, en      *)
(* passant or the pawn double step; a position is piece placement, side to  *)
(* move and half-move clock.                                                 *)
(***************************************************************************)
EXTENDS Integers, Sequences, FiniteSets, TLC

\* Bound on the number of inbound events the transport delivers in one run.
MaxEvents == 3

----------------------------------------------------------------------------
\* The board of the rules library (reduced).

FileNames == <<"a", "b", "c">>
RankNames == <<"1", "2", "3", "4">>
NFiles == Len(FileNames)
NRanks == Len(RankNames)
Squares == (1..NFiles) \X (1..NRanks)

Empty == "."
WhitePieces == {"K", "Q", "R", "B", "N", "P"}
BlackPieces == {"k", "q", "r", "b", "n", "p"}
PieceSymbols == WhitePieces \cup BlackPieces

\* chess.WHITE is True, chess.BLACK is False.
WHITE == TRUE
BLACK == FALSE

IsWhite(p) == p \in WhitePieces

\* Piece type as the lower-case symbol.
PieceType(p) ==
    CASE p \in {"K", "k"} -> "k"
      [] p \in {"Q", "q"} -> "q"
      [] p \in {"R", "r"} -> "r"
      [] p \in {"B", "b"} -> "b"
      [] p \in {"N", "n"} -> "n"
      [] p \in {"P", "p"} -> "p"

\* chess.Piece(piece_type, color).symbol()
MakePiece(t, color) ==
    IF color = WHITE
    THEN CASE t = "k" -> "K" [] t = "q" -> "Q" [] t = "r" -> "R"
           [] t = "b" -> "B" [] t = "n" -> "N" [] t = "p" -> "P"
    ELSE t

SquareName(s) == <<FileNames[s[1]], RankNames[s[2]]>>

Add(s, d, k) == <<s[1] + k * d[1], s[2] + k * d[2]>>

RookDirs == {<<1, 0>>, <<-1, 0>>, <<0, 1>>, <<0, -1>>}
BishopDirs == {<<1, 1>>, <<1, -1>>, <<-1, 1>>, <<-1, -1>>}
KingDirs == RookDirs \cup BishopDirs
KnightJumps == {<<1, 2>>, <<2, 1>>, <<-1, 2>>, <<-2, 1>>,
                <<1, -2>>, <<2, -1>>, <<-1, -2>>, <<-2, -1>>}

\* Squares a sliding piece on s sees along direction d: up to and including
\* the first occupied square.
Ray(b, s, d) ==
    {Add(s, d, k) : k \in {k \in 1..NRanks :
        /\ Add(s, d, k) \in Squares
        /\ \A j \in 1..(k - 1) : b[Add(s, d, j)] = Empty}}

Forward(color) == IF color = WHITE THEN 1 ELSE -1
LastRank(color) == IF color = WHITE THEN NRanks ELSE 1

\* Board.attacks(square): the squares attacked by the piece on s.
Attacks(b, s) ==
    LET p == b[s]
        t == PieceType(p)
    IN  CASE t = "k" -> {Add(s, d, 1) : d \in KingDirs} \cap Squares
          [] t = "n" -> {Add(s, d, 1) : d \in KnightJumps} \cap Squares
          [] t = "r" -> UNION {Ray(b, s, d) : d \in RookDirs}
          [] t = "b" -> UNION {Ray(b, s, d) : d \in BishopDirs}
          [] t = "q" -> UNION {Ray(b, s, d) : d \in KingDirs}
          [] t = "p" -> {Add(s, <<1, Forward(IsWhite(p))>>, 1),
                         Add(s, <<-1, Forward(IsWhite(p))>>, 1)} \cap Squares

\* Board.is_attacked_by(color, square)
IsAttackedBy(b, color, sq) ==
    \E s \in Squares : b[s] # Empty /\ IsWhite(b[s]) = color /\ sq \in Attacks(b, s)

----------------------------------------------------------------------------
\* Moves.  chess.Move(from_square, to_square, promotion); the null move is
\* Move.null().  promotion is "" for none.

NullMove == [null |-> TRUE, from |-> <<1, 1>>, to |-> <<1, 1>>, promotion |-> ""]
Mv(f, t, pr) == [null |-> FALSE, from |-> f, to |-> t, promotion |-> pr]

PromotionTypes == {"q", "r", "b", "n"}

\* Move.uci()
Uci(m) ==
    IF m.null THEN <<"0", "0", "0", "0">>
    ELSE SquareName(m.from) \o SquareName(m.to)
         \o (IF m.promotion = "" THEN <<>> ELSE <<m.promotion>>)

\* Result of a library call: err is "" on success, else the exception's name.
Ok(v) == [err |-> "", val |-> v]
Raise(e, v) == [err |-> e, val |-> v]

\* The square with the given two-character name; <<0, 0>> when there is none
\* (SQUARE_NAMES.index raises ValueError).
NoSquare == <<0, 0>>
ParseSquare(name) ==
    IF \E s \in Squares : SquareName(s) = name
    THEN CHOOSE s \in Squares : SquareName(s) = name
    ELSE NoSquare

\* chess.Move.from_uci(uci)
FromUci(uci) ==
    IF uci = <<"0", "0", "0", "0">> THEN Ok(NullMove)
    ELSE IF Len(uci) \in {4, 5}
    THEN LET f == ParseSquare(SubSeq(uci, 1, 2))
             t == ParseSquare(SubSeq(uci, 3, 4))
             badPromotion == Len(uci) = 5 /\ uci[5] \notin {"p", "n", "b", "r", "q", "k"}
         IN  IF f = NoSquare \/ t = NoSquare \/ badPromotion
             THEN Raise("InvalidMoveError", NullMove)
             ELSE IF f = t THEN Raise("InvalidMoveError", NullMove)
             ELSE Ok(Mv(f, t, IF Len(uci) = 5 THEN uci[5] ELSE ""))
    ELSE Raise("InvalidMoveError", NullMove)

----------------------------------------------------------------------------
\* Positions and their serialized form.  A serialized position is the list
\* of its whitespace-separated fields: board, turn, half-move clock.

FenDigits == {"1", "2", "3", "4", "5", "6", "7", "8"}
DigitVal(c) ==
    CASE c = "0" -> 0 [] c = "1" -> 1 [] c = "2" -> 2 [] c = "3" -> 3
      [] c = "4" -> 4 [] c = "5" -> 5 [] c = "6" -> 6 [] c = "7" -> 7
      [] c = "8" -> 8 [] c = "9" -> 9

\* The board field with every digit replaced by that many empty cells; a
\* character that is neither digit, piece symbol nor "/" becomes "?".
RECURSIVE Expand(_)
Expand(cs) ==
    IF cs = <<>> THEN <<>>
    ELSE LET c == Head(cs)
         IN  (IF c \in FenDigits THEN [i \in 1..DigitVal(c) |-> Empty]
              ELSE IF c = "/" \/ c \in PieceSymbols THEN <<c>>
              ELSE <<"?">>) \o Expand(Tail(cs))

\* BaseBoard._set_board_fen's validation: NRanks rows of NFiles cells each,
\* only digits and piece symbols, no two digits in a row.
ValidBoardFen(cs) ==
    LET e == Expand(cs)
    IN  /\ Len(e) = NRanks * NFiles + (NRanks - 1)
        /\ \A i \in 1..Len(e) : (e[i] = "/") <=> (i % (NFiles + 1) = 0)
        /\ \A i \in 1..Len(e) : e[i] # "?"
        /\ \A i \in 1..(Len(cs) - 1) : ~(cs[i] \in FenDigits /\ cs[i + 1] \in FenDigits)

\* The placement a valid board field decodes to.
DecodeBoard(cs) ==
    LET e == Expand(cs)
    IN  [s \in Squares |-> e[(NRanks - s[2]) * (NFiles + 1) + s[1]]]

\* int(text) for a non-negative decimal numeral; -1 when text is none.
RECURSIVE ParseInt(_)
ParseInt(cs) ==
    IF cs = <<>> THEN -1
    ELSE IF \E i \in 1..Len(cs) : cs[i] \notin (FenDigits \cup {"0", "9"}) THEN -1
    ELSE IF Len(cs) = 1 THEN DigitVal(cs[1])
    ELSE 10 * ParseInt(SubSeq(cs, 1, Len(cs) - 1)) + DigitVal(cs[Len(cs)])

Position(b, t, h) == [board |-> b, turn |-> t, halfmove |-> h]

\* Board.set_fen(fen) on position pos: every field is validated before any
\* part of the position is replaced; missing trailing fields take defaults.
SetFen(pos, fen) ==
    IF Len(fen) = 0 THEN Raise("ValueError", pos)
    ELSE IF Len(fen) >= 2 /\ fen[2] \notin {<<"w">>, <<"b">>} THEN Raise("ValueError", pos)
    ELSE IF Len(fen) >= 3 /\ ParseInt(fen[3]) < 0 THEN Raise("ValueError", pos)
    ELSE IF Len(fen) > 3 THEN Raise("ValueError", pos)
    ELSE IF ~ValidBoardFen(fen[1]) THEN Raise("ValueError", pos)
    ELSE Ok(Position(DecodeBoard(fen[1]),
                     IF Len(fen) >= 2 THEN fen[2] = <<"w">> ELSE WHITE,
                     IF Len(fen) >= 3 THEN ParseInt(fen[3]) ELSE 0))


----------------------------------------------------------------------------
\* Applying moves.

\* Board.is_zeroing(move): the move touches a pawn or a piece of the side
\* not to move.
IsZeroing(pos, m) ==
    \E s \in {m.from, m.to} :
        /\ pos.board[s] # Empty
        /\ PieceType(pos.board[s]) = "p" \/ IsWhite(pos.board[s]) # pos.turn

\* Board.push(move).  push does not check that the move is legal: it bumps
\* the clock, lifts whatever stands on the origin square and sets it, as a
\* piece of the side to move, on the destination.  The library build decides
\* what happens when the origin square is empty: with its assertion enabled
\* AssertionError is raised after the clock has been changed; with assertions
\* stripped the destination is cleared and the turn passes.  Each outcome is
\* the position left behind and the exception raised ("" for none).
PushOutcomes(pos, m) ==
    LET clock == IF ~m.null /\ IsZeroing(pos, m) THEN 0 ELSE pos.halfmove + 1
        b == pos.board
    IN  IF m.null
        THEN {Ok(Position(b, ~pos.turn, clock))}
        ELSE IF b[m.from] = Empty
        THEN {Raise("AssertionError", Position(b, pos.turn, clock)),
              Ok(Position([b EXCEPT ![m.to] = Empty], ~pos.turn, clock))}
        ELSE LET t == IF m.promotion # "" THEN m.promotion ELSE PieceType(b[m.from])
             IN  {Ok(Position([b EXCEPT ![m.from] = Empty,
                                        ![m.to] = MakePiece(t, pos.turn)],
                              ~pos.turn, clock))}

\* The position after a move that moves a piece (the only outcome then).
Push(pos, m) == (CHOOSE o \in PushOutcomes(pos, m) : o.err = "").val

\* Board.generate_pseudo_legal_moves()
PseudoLegalMoves(pos) ==
    LET b == pos.board
        own(s) == b[s] # Empty /\ IsWhite(b[s]) = pos.turn
        enemy(s) == b[s] # Empty /\ IsWhite(b[s]) # pos.turn
        promos(s, t) == IF t[2] = LastRank(pos.turn)
                        THEN {Mv(s, t, pr) : pr \in PromotionTypes}
                        ELSE {Mv(s, t, "")}
        pawnTargets(s) ==
            {t \in Attacks(b, s) : enemy(t)}
            \cup {t \in {Add(s, <<0, Forward(pos.turn)>>, 1)} \cap Squares : b[t] = Empty}
    IN  UNION {IF PieceType(b[s]) = "p"
               THEN UNION {promos(s, t) : t \in pawnTargets(s)}
               ELSE {Mv(s, t, "") : t \in {t \in Attacks(b, s) : ~own(t)}}
               : s \in {s \in Squares : own(s)}}

\* Squares of the kings of one colour.
Kings(b, color) == {s \in Squares : b[s] = MakePiece("k", color)}

\* Board.is_check()
IsCheck(pos) ==
    \E k \in Kings(pos.board, pos.turn) : IsAttackedBy(pos.board, ~pos.turn, k)

\* Board.legal_moves: the pseudo-legal moves that do not leave the mover's
\* king attacked (every pseudo-legal move when the mover has no king).
LegalMoves(pos) ==
    {m \in PseudoLegalMoves(pos) :
        LET after == Push(pos, m).board
        IN  \A k \in Kings(after, pos.turn) : ~IsAttackedBy(after, ~pos.turn, k)}

\* Board.has_insufficient_material(color)
HasInsufficientMaterial(b, color) ==
    LET mine == {s \in Squares : b[s] # Empty /\ IsWhite(b[s]) = color}
        theirs == {s \in Squares : b[s] # Empty /\ IsWhite(b[s]) # color}
        ofType(S, ts) == {s \in S : PieceType(b[s]) \in ts}
        all == mine \cup theirs
        bishops == ofType(all, {"b"})
        dark(s) == (s[1] + s[2]) % 2 = 0
    IN  IF ofType(mine, {"p", "r", "q"}) # {} THEN FALSE
        ELSE IF ofType(mine, {"n"}) # {}
        THEN Cardinality(mine) <= 2 /\ ofType(theirs, {"p", "n", "b", "r"}) = {}
        ELSE IF ofType(mine, {"b"}) # {}
        THEN /\ (\A s \in bishops : dark(s)) \/ (\A s \in bishops : ~dark(s))
             /\ ofType(all, {"p", "n"}) = {}
        ELSE TRUE

IsCheckmate(pos) == IsCheck(pos) /\ LegalMoves(pos) = {}
IsStalemate(pos) == ~IsCheck(pos) /\ LegalMoves(pos) = {}
IsInsufficientMaterial(pos) ==
    HasInsufficientMaterial(pos.board, WHITE) /\ HasInsufficientMaterial(pos.board, BLACK)

\* Board.is_seventyfive_moves()
IsSeventyFiveMoves(pos) == pos.halfmove >= 150 /\ LegalMoves(pos) # {}

\* Board.is_game_over(): checkmate, stalemate, insufficient material or the
\* seventy-five-move rule (fivefold repetition needs a move stack, which
\* set_fen clears).
IsGameOver(pos) ==
    \/ IsCheckmate(pos)
    \/ IsStalemate(pos)
    \/ IsInsufficientMaterial(pos)
    \/ IsSeventyFiveMoves(pos)


----------------------------------------------------------------------------
\* Inputs: the payloads the server's events carry.

\* "1k1/1p1/1P1/1K1 w 0": the position chess.Board() starts from (reduced board)
StartFen == <<<<"1", "k", "1", "/", "1", "p", "1", "/", "1", "P", "1", "/", "1", "K", "1">>, <<"w">>, <<"0">>>>

\* "1k1/3/1P1/1K1 w 0": White to move, not terminal
FenWhiteToMove == <<<<"1", "k", "1", "/", "3", "/", "1", "P", "1", "/", "1", "K", "1">>, <<"w">>, <<"0">>>>

\* "1k1/3/1P1/1K1 b 1": Black to move, not terminal
FenBlackToMove == <<<<"1", "k", "1", "/", "3", "/", "1", "P", "1", "/", "1", "K", "1">>, <<"b">>, <<"1">>>>

\* "k2/2P/3/K2 w 0": White to move, pawn one step from promotion
FenPromotion == <<<<"k", "2", "/", "2", "P", "/", "3", "/", "K", "2">>, <<"w">>, <<"0">>>>

\* "3/1k1/q2/K2 w 3": White to move and checkmated
FenCheckmate == <<<<"3", "/", "1", "k", "1", "/", "q", "2", "/", "K", "2">>, <<"w">>, <<"3">>>>

\* "2k/3/2q/K2 w 3": White to move and stalemated
FenStalemate == <<<<"2", "k", "/", "3", "/", "2", "q", "/", "K", "2">>, <<"w">>, <<"3">>>>

\* "k2/3/3/2K w 4": White to move, insufficient material, king moves exist
FenBareKings == <<<<"k", "2", "/", "3", "/", "3", "/", "2", "K">>, <<"w">>, <<"4">>>>

\* "1k1/3/1P11/1K1 w 0": malformed: a row of the wrong width
FenBadRow == <<<<"1", "k", "1", "/", "3", "/", "1", "P", "1", "1", "/", "1", "K", "1">>, <<"w">>, <<"0">>>>

\* "1k1/3/1P1/1K1 x 0": malformed: no such side to move
FenBadTurn == <<<<"1", "k", "1", "/", "3", "/", "1", "P", "1", "/", "1", "K", "1">>, <<"x">>, <<"0">>>>

\* Opponent-move payloads: the keys present and their text.
MoveAdvance == [from |-> <<"b", "2">>, to |-> <<"b", "3">>]
MoveSideways == [from |-> <<"b", "2">>, to |-> <<"c", "3">>]
MoveEmptyOrigin == [from |-> <<"a", "3">>, to |-> <<"a", "4">>]
MoveBadSquare == [from |-> <<"z", "9">>, to |-> <<"b", "3">>]
MoveNoOrigin == [to |-> <<"b", "3">>]
MovePromoting == [from |-> <<"c", "3">>, to |-> <<"c", "4">>, promotion |-> <<"q">>]

Fens == {FenWhiteToMove, FenBlackToMove, FenPromotion, FenCheckmate,
         FenStalemate, FenBareKings, FenBadRow, FenBadTurn}
MovePayloads == {MoveAdvance, MoveSideways, MoveEmptyOrigin, MoveBadSquare,
                 MoveNoOrigin, MovePromoting}
RoleTokens == {"w", "b"}

\* player_role before any assignment (None).
None == "None"

\* Names of the events the program defines a handler function for, and the
\* handler each is meant for; "gameOver" stands for any other event name.
HandlerTable ==
    [connect |-> "connect", connect_error |-> "connect_error",
     disconnect |-> "disconnect", playerRole |-> "on_player_role",
     spectatorRole |-> "on_spectator", boardState |-> "on_boardstate",
     move |-> "on_move"]
OtherEvent == "gameOver"

----------------------------------------------------------------------------
\* The program.

VARIABLES
    pc,            \* where the main thread is: "connect" (line 50),
                   \* "connected" (line 51), "wait" (line 67), "crashed", "exited"
    conn,          \* the connection: "none", "up", "reconnecting", "closed"
    handlers,      \* sio's handler registry: event name -> handler
    chessboard,    \* the chess.Board
    player_role,   \* None or the token of a role-assignment event
    emitted,       \* the move events sent to the server, in order
    last,          \* what the transport's last callback delivery did
    nEvents        \* number of events the transport has delivered

vars == <<pc, conn, handlers, chessboard, player_role, emitted, last, nEvents>>

\* make_moves is a module-level name bound by the def statement at line 53.
MakeMovesDefined == pc \in {"wait", "exited"}

\* What one run of a handler leaves behind: the board, the role, the move
\* events sent, the lines printed, the exception that left the handler (""
\* for none), whether make_moves was entered, and the size of every list
\* handed to random.choice.
Outcome(b, r, sent, printed, raised, ran, chose) ==
    [chessboard |-> b, player_role |-> r, sent |-> sent, printed |-> printed,
     raised |-> raised, ran |-> ran, chose |-> chose]

\* The payload of the move event for a selected move (lines 60-64).
MovePayload(m) ==
    [from |-> SubSeq(Uci(m), 1, 2), to |-> SubSeq(Uci(m), 3, 4), promotion |-> <<"q">>]

\* A slip that leaves out the game-over test of lines 54-56.
make_moves_unguarded(b, r) ==
    LET moves == LegalMoves(b)
    IN  IF moves = {}
        THEN {Outcome(b, r, <<>>, <<>>, "IndexError", TRUE, <<0>>)}
        ELSE {Outcome(Push(b, m), r, <<MovePayload(m)>>, <<"Bot played">>, "",
                      TRUE, <<Cardinality(moves)>>) : m \in moves}

\* make_moves() (lines 53-65) on board b with role r.
make_moves(b, r) ==
    IF IsGameOver(b)
    THEN {Outcome(b, r, <<>>, <<"Game Over">>, "", TRUE, <<>>)}
    ELSE LET moves == LegalMoves(b)
         IN  IF moves = {}
             THEN {Outcome(b, r, <<>>, <<>>, "IndexError", TRUE, <<0>>)}
             ELSE {Outcome(Push(b, m), r, <<MovePayload(m)>>, <<"Bot played">>, "",
                           TRUE, <<Cardinality(moves)>>) : m \in moves}

\* A slip that swallows set_fen's error and goes on to the turn test with the
\* board it had.
on_boardstate_swallow(b, r, defined, fen) ==
    LET loaded == SetFen(b, fen)
        turn == IF loaded.val.turn THEN "w" ELSE "b"
    IN  IF turn = r
        THEN IF defined
             THEN {[o EXCEPT !.printed = <<"Board updated">> \o @] :
                       o \in make_moves(loaded.val, r)}
             ELSE {Outcome(loaded.val, r, <<>>, <<"Board updated">>, "NameError",
                           FALSE, <<>>)}
        ELSE {Outcome(loaded.val, r, <<>>, <<"Board updated">>, "", FALSE, <<>>)}

\* A slip that loads only the piece placement (set_board_fen) and keeps the
\* side to move and the clock the board had.
on_boardstate_board_only(b, r, defined, fen) ==
    LET full == SetFen(b, fen)
        loaded == [full EXCEPT !.val = Position(full.val.board, b.turn, b.halfmove)]
        turn == IF loaded.val.turn THEN "w" ELSE "b"
    IN  IF loaded.err # ""
        THEN {Outcome(b, r, <<>>, <<>>, loaded.err, FALSE, <<>>)}
        ELSE IF turn = r
        THEN IF defined
             THEN {[o EXCEPT !.printed = <<"Board updated">> \o @] :
                       o \in make_moves(loaded.val, r)}
             ELSE {Outcome(loaded.val, r, <<>>, <<"Board updated">>, "NameError",
                           FALSE, <<>>)}
        ELSE {Outcome(loaded.val, r, <<>>, <<"Board updated">>, "", FALSE, <<>>)}

\* A slip that takes an unassigned role for the client's turn.
on_boardstate_any_role(b, r, defined, fen) ==
    LET loaded == SetFen(b, fen)
        turn == IF loaded.val.turn THEN "w" ELSE "b"
    IN  IF loaded.err # ""
        THEN {Outcome(loaded.val, r, <<>>, <<>>, loaded.err, FALSE, <<>>)}
        ELSE IF turn = r \/ r = None
        THEN IF defined
             THEN {[o EXCEPT !.printed = <<"Board updated">> \o @] :
                       o \in make_moves(loaded.val, r)}
             ELSE {Outcome(loaded.val, r, <<>>, <<"Board updated">>, "NameError",
                           FALSE, <<>>)}
        ELSE {Outcome(loaded.val, r, <<>>, <<"Board updated">>, "", FALSE, <<>>)}

\* on_boardstate(fen) (lines 32-39); defined tells whether the name
\* make_moves is bound yet.
on_boardstate(b, r, defined, fen) ==
    LET loaded == SetFen(b, fen)
        turn == IF loaded.val.turn THEN "w" ELSE "b"
    IN  IF loaded.err # ""
        THEN {Outcome(loaded.val, r, <<>>, <<>>, loaded.err, FALSE, <<>>)}
        ELSE IF turn = r
        THEN IF defined
             THEN {[o EXCEPT !.printed = <<"Board updated">> \o @] :
                       o \in make_moves(loaded.val, r)}
             ELSE {Outcome(loaded.val, r, <<>>, <<"Board updated">>, "NameError",
                           FALSE, <<>>)}
        ELSE {Outcome(loaded.val, r, <<>>, <<"Board updated">>, "", FALSE, <<>>)}

\* A slip that answers an opponent's move at once instead of waiting for the
\* next board-state push.
on_move_then_reply(b, r, move) ==
    LET caught(pos) == Outcome(pos, r, <<>>, <<"Invalid move received">>, "", FALSE, <<>>)
    IN  IF ~({"from", "to"} \subseteq DOMAIN move) \/ FromUci(move["from"] \o move["to"]).err # ""
        THEN {caught(b)}
        ELSE UNION {IF o.err # "" THEN {caught(o.val)}
                    ELSE IF (IF o.val.turn THEN "w" ELSE "b") = r
                    THEN make_moves(o.val, r)
                    ELSE {Outcome(o.val, r, <<>>, <<"Opponent moved">>, "", FALSE, <<>>)}
                    : o \in PushOutcomes(b, FromUci(move["from"] \o move["to"]).val)}

\* on_move(move) (lines 42-47): every exception is caught and printed.
on_move(b, r, move) ==
    LET caught(pos) == Outcome(pos, r, <<>>, <<"Invalid move received">>, "", FALSE, <<>>)
    IN  IF ~({"from", "to"} \subseteq DOMAIN move)
        THEN {caught(b)}
        ELSE LET parsed == FromUci(move["from"] \o move["to"])
             IN  IF parsed.err # ""
                 THEN {caught(b)}
                 ELSE {IF o.err # "" THEN caught(o.val)
                       ELSE Outcome(o.val, r, <<>>, <<"Opponent moved">>, "", FALSE, <<>>)
                       : o \in PushOutcomes(b, parsed.val)}

\* A slip that keeps the first role ever assigned.
on_player_role_first_wins(b, r, role) ==
    {Outcome(b, IF r = None THEN role ELSE r, <<>>,
             <<IF role = "w" THEN "I am playing as White" ELSE "I am playing as Black">>,
             "", FALSE, <<>>)}

\* on_player_role(role) (lines 22-25)
on_player_role(b, r, role) ==
    {Outcome(b, role, <<>>,
             <<IF role = "w" THEN "I am playing as White" ELSE "I am playing as Black">>,
             "", FALSE, <<>>)}

\* on_spectator() (lines 28-29)
on_spectator(b, r) == {Outcome(b, r, <<>>, <<"I am a spectator">>, "", FALSE, <<>>)}

\* connect(), connect_error(data), disconnect() (lines 10-19): print only.
connect(b, r) == {Outcome(b, r, <<>>, <<"Connected to server!">>, "", FALSE, <<>>)}
connect_error(b, r) == {Outcome(b, r, <<>>, <<"Connection failed:">>, "", FALSE, <<>>)}
disconnect(b, r) == {Outcome(b, r, <<>>, <<"Disconnected from server">>, "", FALSE, <<>>)}

----------------------------------------------------------------------------
\* The transport.  It reads one packet at a time and runs the handler the
\* registry holds for the packet's event, to completion, before it reads the
\* next; an event without a handler is dropped.  An exception that leaves a
\* handler is recorded in last.raised.

Delivery(ev, arg, handler, o) ==
    [ev |-> ev, arg |-> arg, handler |-> handler, sent |-> o.sent,
     printed |-> o.printed, raised |-> o.raised, ran |-> o.ran, chose |-> o.chose]

NoOutcome == Outcome(chessboard, player_role, <<>>, <<>>, "", FALSE, <<>>)

\* Run the handler bound to ev, its possible outcomes being outcomes.
Handle(ev, arg, outcomes) ==
    \E o \in outcomes :
        /\ chessboard' = o.chessboard
        /\ player_role' = o.player_role
        /\ emitted' = emitted \o o.sent
        /\ last' = Delivery(ev, arg, handlers[ev], o)

\* Nothing is bound to ev.
Ignore(ev, arg) ==
    /\ last' = Delivery(ev, arg, "", NoOutcome)
    /\ UNCHANGED <<chessboard, player_role, emitted>>

Dispatch(ev, arg, outcomes) ==
    IF ev \in DOMAIN handlers THEN Handle(ev, arg, outcomes) ELSE Ignore(ev, arg)

\* The server can push an event while the connection is up and the process
\* is alive.
CanDeliver == conn = "up" /\ pc \in {"connected", "wait"} /\ nEvents < MaxEvents

DeliverRole(role) ==
    /\ CanDeliver /\ "playerRole" \in DOMAIN handlers
    /\ nEvents' = nEvents + 1
    /\ Handle("playerRole", role, on_player_role(chessboard, player_role, role))
    /\ UNCHANGED <<pc, conn, handlers>>

DeliverSpectator ==
    /\ CanDeliver /\ "spectatorRole" \in DOMAIN handlers
    /\ nEvents' = nEvents + 1
    /\ Handle("spectatorRole", "", on_spectator(chessboard, player_role))
    /\ UNCHANGED <<pc, conn, handlers>>

DeliverBoardstate(fen) ==
    /\ CanDeliver /\ "boardState" \in DOMAIN handlers
    /\ nEvents' = nEvents + 1
    /\ Handle("boardState", fen,
              on_boardstate(chessboard, player_role, MakeMovesDefined, fen))
    /\ UNCHANGED <<pc, conn, handlers>>

DeliverMove(move) ==
    /\ CanDeliver /\ "move" \in DOMAIN handlers
    /\ nEvents' = nEvents + 1
    /\ Handle("move", move, on_move(chessboard, player_role, move))
    /\ UNCHANGED <<pc, conn, handlers>>

Drop(ev, arg) ==
    /\ CanDeliver /\ ev \notin DOMAIN handlers
    /\ nEvents' = nEvents + 1
    /\ Ignore(ev, arg)
    /\ UNCHANGED <<pc, conn, handlers>>

\* sio.connect(...) at line 50 succeeds: the connect event is dispatched and
\* the call returns.
ConnectOk ==
    /\ pc = "connect"
    /\ pc' = "connected" /\ conn' = "up"
    /\ Dispatch("connect", "", connect(chessboard, player_role))
    /\ UNCHANGED <<handlers, nEvents>>

\* sio.connect(...) fails: the connect_error event is dispatched, then
\* ConnectionError is raised at line 50, where nothing catches it.
ConnectFails ==
    /\ pc = "connect"
    /\ pc' = "crashed" /\ conn' = "none"
    /\ Dispatch("connect_error", "", connect_error(chessboard, player_role))
    /\ UNCHANGED <<handlers, nEvents>>

\* Lines 51-53: the def statement binds make_moves; line 67 starts to wait.
DefineMakeMoves ==
    /\ pc = "connected"
    /\ pc' = "wait"
    /\ UNCHANGED <<conn, handlers, chessboard, player_role, emitted, last, nEvents>>

\* The connection is closed for good (by the server, or by a local
\* disconnect); the disconnect event is dispatched.
ConnectionCloses ==
    /\ conn = "up" /\ pc \in {"connected", "wait"}
    /\ conn' = "closed"
    /\ Dispatch("disconnect", "", disconnect(chessboard, player_role))
    /\ UNCHANGED <<pc, handlers, nEvents>>

\* The connection drops (network failure).  sio was created at line 5 with
\* the library's defaults, reconnection among them: the disconnect event is
\* dispatched and the client starts trying to connect again.
ConnectionLost ==
    /\ conn = "up" /\ pc \in {"connected", "wait"}
    /\ conn' = "reconnecting"
    /\ Dispatch("disconnect", "", disconnect(chessboard, player_role))
    /\ UNCHANGED <<pc, handlers, nEvents>>

\* A reconnection attempt succeeds: the connect event is dispatched again.
Reconnects ==
    /\ conn = "reconnecting" /\ pc \in {"connected", "wait"}
    /\ conn' = "up"
    /\ Dispatch("connect", "", connect(chessboard, player_role))
    /\ UNCHANGED <<pc, handlers, nEvents>>

\* sio.wait() at line 67 returns and the script ends.
WaitReturns ==
    /\ pc = "wait" /\ conn = "closed"
    /\ pc' = "exited"
    /\ UNCHANGED <<conn, handlers, chessboard, player_role, emitted, last, nEvents>>

\* The state after lines 5-7.
InitBoard == SetFen(Position([s \in Squares |-> Empty], WHITE, 0), StartFen).val
NoDelivery == Delivery("", "", "", Outcome(InitBoard, None, <<>>, <<>>, "", FALSE, <<>>))

InitCommon ==
    /\ pc = "connect"
    /\ conn = "none"
    /\ chessboard = InitBoard
    /\ player_role = None
    /\ emitted = <<>>
    /\ last = NoDelivery
    /\ nEvents = 0

\* Every event the server may push, with its payload.
Pushes ==
    ({"playerRole"} \X RoleTokens) \cup ({"boardState"} \X Fens)
    \cup ({"move"} \X MovePayloads) \cup {<<"spectatorRole", "">>, <<OtherEvent, "">>}

\* The program as written: no statement of main.py registers a handler with
\* sio (no sio.on, no sio.event), so the registry stays empty and every
\* pushed event is dropped.
Init == InitCommon /\ handlers = <<>>

Next ==
    \/ ConnectOk
    \/ ConnectFails
    \/ DefineMakeMoves
    \/ ConnectionCloses
    \/ ConnectionLost
    \/ Reconnects
    \/ WaitReturns
    \/ \E p \in Pushes : Drop(p[1], p[2])

Spec == Init /\ [][Next]_vars

\* The program with its handler functions bound to their events, as the
\* event table of the design describes it.
HandlerInit == InitCommon /\ handlers = HandlerTable

HandlerNext ==
    \/ ConnectOk
    \/ ConnectFails
    \/ DefineMakeMoves
    \/ ConnectionCloses
    \/ ConnectionLost
    \/ Reconnects
    \/ WaitReturns
    \/ \E role \in RoleTokens : DeliverRole(role)
    \/ DeliverSpectator
    \/ \E fen \in Fens : DeliverBoardstate(fen)
    \/ \E move \in MovePayloads : DeliverMove(move)
    \/ Drop(OtherEvent, "")

HandlerSpec == HandlerInit /\ [][HandlerNext]_vars

----------------------------------------------------------------------------
\* Properties.

\* A step in which the transport delivers the server's event ev.
Delivers(ev) == nEvents' = nEvents + 1 /\ last'.ev = ev

\* The position a serialized position stands for.
Decoded(fen) == SetFen(InitBoard, fen).val
MalformedFens == {FenBadRow, FenBadTurn}
SideName(pos) == IF pos.turn THEN "w" ELSE "b"

\* fen is a valid position, not over, in which the side to move is role.
OwnTurn(fen, role) ==
    /\ fen \notin MalformedFens
    /\ SideName(Decoded(fen)) = role
    /\ ~IsGameOver(Decoded(fen))

\* The payload names origin and destination of a move legal in pos.
DescribesLegalMove(pos, move) ==
    /\ {"from", "to"} \subseteq DOMAIN move
    /\ \E m \in LegalMoves(pos) :
           SquareName(m.from) = move["from"] /\ SquareName(m.to) = move["to"]

\* C1: one move event per own turn: a board-state event for a position in
\* which the client is to move and the game is not over is answered with
\* exactly one move event, and a repeated push of the position already
\* answered with none.  (Stated for events handled once the main thread
\* waits at line 67.)
C1_OneMovePerOwnTurn ==
    [][(pc = "wait" /\ Delivers("boardState") /\ OwnTurn(last'.arg, player_role))
        => Len(emitted') - Len(emitted)
             = (IF last.ev = "boardState" /\ last.arg = last'.arg /\ last.sent # <<>>
                THEN 0 ELSE 1)]_vars

\* C2: an opponent-move event whose move is not legal in the position is
\* reported as invalid and leaves the position as it was.
C2_IllegalMoveRejected ==
    [][(Delivers("move") /\ ~DescribesLegalMove(chessboard, last'.arg))
        => (chessboard' = chessboard /\ last'.printed = <<"Invalid move received">>)]_vars

\* C3: every game event and connection lifecycle event the transport
\* delivers runs the handler written for it.
C3_EveryEventRunsItsHandler ==
    last.ev \in DOMAIN HandlerTable => last.handler = HandlerTable[last.ev]

\* C4 (as claimed): once assigned, the role never changes again.
C4_RoleAssignedOnce ==
    [][player_role # None => player_role' = player_role]_vars

\* C4 (amended): the role changes only when a role-assignment event is
\* handled, and is then the token of that event; so it is always the token
\* of the latest role-assignment event.
C4_RoleFollowsLatestAssignment ==
    [][IF Delivers("playerRole") THEN player_role' = last'.arg
       ELSE player_role' = player_role]_vars

\* A role-assignment event has just been handled by a client that had
\* already answered a position as White, and the role is now Black.
C4_Witness ==
    /\ last.ev = "playerRole" /\ last.arg = "b" /\ player_role = "b"
    /\ Len(emitted) = 1 /\ chessboard.turn = BLACK

\* C5: a board-state event whose payload is not a valid serialized position
\* leaves the position as it was, sends no move event and does not enter the
\* move-turn sequence.
C5_MalformedPositionIgnored ==
    [][(Delivers("boardState") /\ last'.arg \in MalformedFens)
        => (chessboard' = chessboard /\ emitted' = emitted /\ ~last'.ran)]_vars

\* A malformed position has just been pushed to a client whose retained
\* position has the client's own side to move.
C5_Witness ==
    /\ last.ev = "boardState" /\ last.arg \in MalformedFens
    /\ last.raised = "ValueError"
    /\ player_role = SideName(chessboard) /\ MakeMovesDefined

\* C6: no exception leaves a handler.
C6_NoErrorLeavesHandler == last.raised = ""

\* C7: a failed connection attempt does not end the process with an
\* uncaught error.
C7_ConnectFailureNotFatal == pc # "crashed"

\* C8: a board-state event for a position P in which the client is to move
\* and the game is not over leaves P with one of its legal moves applied and
\* sends that move's origin and destination with promotion "q".
C8_OwnTurnAnswered ==
    [][(Delivers("boardState") /\ OwnTurn(last'.arg, player_role))
        => \E m \in LegalMoves(Decoded(last'.arg)) :
               /\ chessboard' = Push(Decoded(last'.arg), m)
               /\ emitted' = Append(emitted, [from |-> SquareName(m.from),
                                              to |-> SquareName(m.to),
                                              promotion |-> <<"q">>])]_vars

\* C9: the list of move events sent grows only in a step that handles a
\* board-state event.
C9_MovesOnlyOnBoardstate ==
    [][emitted' # emitted => Delivers("boardState")]_vars

\* An opponent's legal move has just been applied by a client playing
\* Black, Black is now to move, and nothing has been sent.
C9_Witness ==
    /\ last.ev = "move" /\ last.printed = <<"Opponent moved">>
    /\ player_role = "b" /\ chessboard.turn = BLACK
    /\ chessboard = Push(Decoded(FenWhiteToMove), Mv(<<2, 2>>, <<2, 3>>, ""))
    /\ emitted = <<>>

\* C10: when the move-turn sequence runs on a position whose game is over it
\* sends nothing and leaves that position as loaded; and random.choice is
\* never handed an empty list.
C10_TerminalPositionDeclined ==
    /\ [][(Delivers("boardState") /\ last'.ran /\ IsGameOver(Decoded(last'.arg)))
           => (emitted' = emitted /\ chessboard' = Decoded(last'.arg))]_vars
    /\ [](\A i \in DOMAIN last.chose : last.chose[i] > 0)

\* The move-turn sequence has just declined a finished game in which the
\* side to move still has legal moves.
C10_Witness ==
    /\ last.ev = "boardState" /\ last.ran /\ last.sent = <<>>
    /\ IsGameOver(chessboard) /\ LegalMoves(chessboard) # {}

\* C11: the wait at line 67 ends only once the connection has terminated,
\* and a connection that terminates is never followed by an attempt to
\* connect again.
C11_WaitEndsWithoutReconnect ==
    /\ pc = "exited" => conn = "closed"
    /\ conn # "reconnecting"

\* Board.fen(): the serialized form of a position, field by field.
DigitText == <<"1", "2", "3", "4", "5", "6", "7", "8", "9">>
RECURSIVE IntText(_)
IntText(n) ==
    IF n = 0 THEN <<"0">>
    ELSE IF n < 10 THEN <<DigitText[n]>>
    ELSE IntText(n \div 10) \o (IF n % 10 = 0 THEN <<"0">> ELSE <<DigitText[n % 10]>>)

RECURSIVE EncodeCells(_, _)
EncodeCells(cells, run) ==
    LET gap == IF run > 0 THEN <<DigitText[run]>> ELSE <<>>
    IN  IF cells = <<>> THEN gap
        ELSE IF Head(cells) = Empty THEN EncodeCells(Tail(cells), run + 1)
        ELSE gap \o <<Head(cells)>> \o EncodeCells(Tail(cells), 0)

RECURSIVE EncodeRows(_, _)
EncodeRows(b, r) ==
    EncodeCells([f \in 1..NFiles |-> b[<<f, r>>]], 0)
    \o (IF r = 1 THEN <<>> ELSE <<"/">> \o EncodeRows(b, r - 1))

Fen(pos) == <<EncodeRows(pos.board, NRanks), <<SideName(pos)>>, IntText(pos.halfmove)>>

\* C12: a board-state event with a valid position F in which the client is
\* not to move (or has no role) leaves exactly the position F stands for,
\* whatever position was held before: it is the decoding of F, and it
\* serializes back to F.
C12_ResyncReplacesPosition ==
    [][(/\ Delivers("boardState")
        /\ last'.arg \notin MalformedFens
        /\ SideName(Decoded(last'.arg)) # player_role)
        => (chessboard' = Decoded(last'.arg) /\ Fen(chessboard') = last'.arg)]_vars

\* A client playing Black that has already answered one position has just
\* been resynchronized to a position with White to move.
C12_Witness ==
    /\ last.ev = "boardState" /\ last.arg = FenWhiteToMove
    /\ player_role = "b" /\ Len(emitted) = 1
    /\ chessboard = Decoded(FenWhiteToMove)

\* The move an opponent-move payload describes: origin, destination and, when
\* the payload carries one, the promotion piece.
DescribedMove(move) ==
    Mv(ParseSquare(move["from"]), ParseSquare(move["to"]),
       IF "promotion" \in DOMAIN move THEN move["promotion"][1] ELSE "")

\* C13: an opponent-move event that describes a move legal in the position
\* leaves the position with that move applied and the other side to move.
C13_LegalOpponentMoveApplied ==
    [][(/\ Delivers("move")
        /\ {"from", "to"} \subseteq DOMAIN last'.arg
        /\ DescribedMove(last'.arg) \in LegalMoves(chessboard))
        => (/\ chessboard' = Push(chessboard, DescribedMove(last'.arg))
            /\ chessboard'.turn = ~chessboard.turn)]_vars

\* What the receiver of a move event plays in pos: the legal move with the
\* payload's origin and destination, promoting to the payload's piece when
\* the move is a promotion.
PayloadMove(pos, p) ==
    CHOOSE m \in LegalMoves(pos) :
        /\ SquareName(m.from) = p.from /\ SquareName(m.to) = p.to
        /\ m.promotion \in {"", p.promotion[1]}

\* C14: after a move-turn sequence that sent a move, the local position is
\* the resynchronized position with the sent payload applied.
C14_LocalPositionMatchesPayload ==
    [][(Delivers("boardState") /\ last'.sent # <<>>)
        => chessboard' = Push(Decoded(last'.arg),
                              PayloadMove(Decoded(last'.arg), last'.sent[1]))]_vars

\* C15: while the role is unassigned (a spectator-assignment event leaves it
\* so) no step sends a move event or enters the move-turn sequence, and the
\* position changes only by a board-state event, to the position pushed, or
\* by an opponent-move event.
C15_UnassignedNeverMoves ==
    [][/\ (player_role = None /\ Delivers("spectatorRole")) => player_role' = None
       /\ (player_role = None /\ player_role' = None)
           => /\ emitted' = emitted
              /\ ~(Delivers("boardState") /\ last'.ran)
              /\ chessboard' # chessboard
                  => \/ Delivers("move")
                     \/ Delivers("boardState") /\ chessboard' = Decoded(last'.arg)]_vars

\* A client without a role, after startup and at least one earlier event, has
\* just loaded a position that is not over, and has sent nothing.
C15_Witness ==
    /\ player_role = None /\ MakeMovesDefined /\ nEvents >= 2
    /\ last.ev = "boardState" /\ last.arg \notin MalformedFens
    /\ chessboard = Decoded(last.arg) /\ ~IsGameOver(chessboard)
    /\ emitted = <<>>

\* C16: every board-state event is handled with make_moves already defined
\* by the startup code, so no handler fails because the name make_moves does
\* not exist.
C16_MakeMovesDefinedWhenHandled == last.raised # "NameError"

====
